---- MODULE Spec2Model ----
(***************************************************************************)
(* A model of the clipboard-to-note plugin (src/main.ts).                  *)
(*                                                                         *)
(* Text is modelled character by character: a string is a sequence of      *)
(* one-character strings, so that trimming, regular expressions, substring *)
(* search and String.prototype.replace are computed as the code computes   *)
(* them.                                                                   *)
(***************************************************************************)
EXTENDS Integers, Sequences, FiniteSets, TLC

VARIABLES
    vault,      \* the vault: its folders, its files and its attachment setting
    settings,   \* the plugin's settings, as loaded by loadSettings
    run,        \* per invocation of createNoteFromClipboard: its locals and position
    fnArg,      \* argument of a function applied on its own (SpecUrl, SpecAbs, SpecTags)
    fnRes,      \* its result
    fnStage     \* "in": not applied yet; otherwise the name of the step applied

vars == <<vault, settings, run, fnArg, fnRes, fnStage>>

(***************************************************************************)
(* Bounds of the model.                                                    *)
(***************************************************************************)
\* number of pieces a clipboard text is assembled from (isURL inputs)
MaxUrlPieces == 5
\* number of chunks (image spans, text) a Markdown text is assembled from
MaxChunks == 2
\* the first line of a text given to generateTitle has at most MaxLineLen characters
MaxLineLen == 60
\* the folder lists given to the tag strategies hold at most MaxFolders folders
MaxFolders == 4
\* the vault may already hold Draft-1.md .. Draft-<MaxTaken>.md
MaxTaken == 2

(***************************************************************************)
(* Strings.                                                                *)
(***************************************************************************)
Range(s) == { s[i] : i \in 1..Len(s) }

RECURSIVE Flatten(_)
\* concatenation of a sequence of strings
Flatten(ss) == IF ss = <<>> THEN <<>> ELSE Head(ss) \o Flatten(Tail(ss))

\* s.substring(i-1) for a 1-based i
From(s, i) == SubSeq(s, i, Len(s))

\* p occurs in s at (1-based) position i
OccursAt(s, p, i) ==
    /\ i >= 1
    /\ i + Len(p) - 1 <= Len(s)
    /\ SubSeq(s, i, i + Len(p) - 1) = p

\* s.startsWith(p)
StartsWith(s, p) == OccursAt(s, p, 1)

\* s.endsWith(p)
EndsWith(s, p) == OccursAt(s, p, Len(s) - Len(p) + 1)

\* s.indexOf(p, from-1) + 1: the first position >= from where p occurs, 0 if none
IndexOf(s, p, from) ==
    LET hits == { i \in from..(Len(s) - Len(p) + 1) : OccursAt(s, p, i) }
    IN  IF hits = {} THEN 0 ELSE CHOOSE i \in hits : \A j \in hits : i <= j

\* s.lastIndexOf(p) + 1
LastIndexOf(s, p) ==
    LET hits == { i \in 1..(Len(s) - Len(p) + 1) : OccursAt(s, p, i) }
    IN  IF hits = {} THEN 0 ELSE CHOOSE i \in hits : \A j \in hits : i >= j

\* s.includes(p)
Includes(s, p) == IndexOf(s, p, 1) # 0

\* White space and line terminators, as String.prototype.trim removes them
WhiteSpace == {" ", "\t", "\n", "\r"}

\* Line terminators, which the regular expression atom "." does not match
LineTerminators == {"\n", "\r"}

\* s.trim()
Trim(s) ==
    LET keep == { i \in 1..Len(s) : s[i] \notin WhiteSpace }
    IN  IF keep = {} THEN <<>>
        ELSE SubSeq(s, CHOOSE i \in keep : \A j \in keep : i <= j,
                       CHOOSE i \in keep : \A j \in keep : i >= j)

RECURSIVE Split(_, _)
\* s.split(c) for a one-character separator c
Split(s, c) ==
    LET i == IndexOf(s, <<c>>, 1)
    IN  IF i = 0 THEN <<s>>
        ELSE <<SubSeq(s, 1, i - 1)>> \o Split(From(s, i + 1), c)

\* the characters of some literals of the code
HttpScheme == <<"h", "t", "t", "p", ":", "/", "/">>
HttpsScheme == <<"h", "t", "t", "p", "s", ":", "/", "/">>

(***************************************************************************)
(* String.prototype.replace(pattern, replacement) with two strings         *)
(* (src/main.ts:531, 599): the first occurrence of the pattern is          *)
(* replaced, and the replacement is expanded as a replacement pattern:     *)
(* "$$" is "$", "$&" the matched text, "$" and a backquote the text before  *)
(* the match and "$'" the text after it.  There are no capture groups, so  *)
(* "$1" and the like stand for themselves.                                 *)
(***************************************************************************)
\* the backquote character (a string literal of TLA+ cannot hold one)
Backquote == "backquote"

RECURSIVE GetSubstitution(_, _, _, _)
GetSubstitution(repl, matched, before, after) ==
    IF repl = <<>> THEN <<>>
    ELSE IF repl[1] = "$" /\ Len(repl) >= 2 /\ repl[2] \in {"$", "&", Backquote, "'"}
    THEN (CASE repl[2] = "$" -> <<"$">>
            [] repl[2] = "&" -> matched
            [] repl[2] = Backquote -> before
            [] OTHER -> after)
         \o GetSubstitution(From(repl, 3), matched, before, after)
    ELSE <<repl[1]>> \o GetSubstitution(Tail(repl), matched, before, after)

StringReplace(s, pattern, repl) ==
    LET pos == IndexOf(s, pattern, 1)
    IN  IF pos = 0 THEN s
        ELSE LET before == SubSeq(s, 1, pos - 1)
                 after == From(s, pos + Len(pattern))
             IN  before \o GetSubstitution(repl, pattern, before, after) \o after

(***************************************************************************)
(* The image regular expression of src/main.ts:483 and 540: "![", any      *)
(* characters but "]" (the alt text), "](", one or more characters but     *)
(* ")" (the URL), ")".  Neither group can cross its closing character, so  *)
(* a match at i is decided by the first "]" and the first ")" after it     *)
(* and backtracking finds nothing else.                                    *)
(***************************************************************************)
NoMatch == [start |-> 0, end |-> 0, alt |-> <<>>, url |-> <<>>]

ImageAt(s, i) ==
    IF ~OccursAt(s, <<"!", "[">>, i) THEN NoMatch
    ELSE LET rb == IndexOf(s, <<"]">>, i + 2)
         IN  IF rb = 0 \/ ~OccursAt(s, <<"(">>, rb + 1) THEN NoMatch
             ELSE LET rp == IndexOf(s, <<")">>, rb + 2)
                  IN  IF rp = 0 \/ rp = rb + 2 THEN NoMatch
                      ELSE [start |-> i, end |-> rp,
                            alt |-> SubSeq(s, i + 2, rb - 1),
                            url |-> SubSeq(s, rb + 2, rp - 1)]

\* imageRegex.exec(s) with lastIndex = from - 1: the leftmost match at or after from
ImageExec(s, from) ==
    LET hits == { i \in from..Len(s) : ImageAt(s, i).start # 0 }
    IN  IF hits = {} THEN NoMatch
        ELSE ImageAt(s, CHOOSE i \in hits : \A j \in hits : i <= j)

RECURSIVE ImageMatchesFrom(_, _)
ImageMatchesFrom(s, from) ==
    LET m == ImageExec(s, from)
    IN  IF m.start = 0 THEN <<>> ELSE <<m>> \o ImageMatchesFrom(s, m.end + 1)

\* every match of the exec loop, in order
ImageMatches(s) == ImageMatchesFrom(s, 1)

\* match[0]
FullMatch(s, m) == SubSeq(s, m.start, m.end)

\* the template literal "![" alt "](" url ")"
ImageSpan(alt, url) == <<"!", "[">> \o alt \o <<"]", "(">> \o url \o <<")">>

RECURSIVE ApplyReplacements(_, _)
\* for (const {original, replacement} of replacements) result = result.replace(...)
ApplyReplacements(s, reps) ==
    IF reps = <<>> THEN s
    ELSE ApplyReplacements(StringReplace(s, Head(reps).original, Head(reps).replacement),
                           Tail(reps))

(***************************************************************************)
(* new URL(reference, base).toString() (src/main.ts:518), for an http(s)   *)
(* base and a reference made of path characters: the URL parser's          *)
(* relative resolution.  The reference's leading and trailing white space  *)
(* is stripped, tabs and newlines are removed, a space in the path is      *)
(* percent-encoded, "." and ".." segments are resolved.  A reference with  *)
(* a scheme of its own (cid:, mailto:) is an absolute URL and comes back   *)
(* as it is.  The parser throws when the base has no valid host.           *)
(***************************************************************************)
Letters ==
    {"a", "b", "c", "d", "e", "f", "g", "h", "i", "j", "k", "l", "m", "n", "o",
     "p", "q", "r", "s", "t", "u", "v", "w", "x", "y", "z"}

Digits == {"0", "1", "2", "3", "4", "5", "6", "7", "8", "9"}

\* code points a host may not hold
ForbiddenHost == {" ", "[", "]", "<", ">", "^", "|", "%", "\\"}

\* the first position >= from of s holding a character of cs, Len(s) + 1 if none
FirstOf(s, cs, from) ==
    LET hits == { i \in from..Len(s) : s[i] \in cs }
    IN  IF hits = {} THEN Len(s) + 1 ELSE CHOOSE i \in hits : \A j \in hits : i <= j

RECURSIVE Join(_, _)
\* segs.join(sep)
Join(segs, sep) ==
    IF segs = <<>> THEN <<>>
    ELSE IF Len(segs) = 1 THEN segs[1]
    ELSE segs[1] \o sep \o Join(Tail(segs), sep)

RECURSIVE PercentEncode(_)
PercentEncode(s) ==
    IF s = <<>> THEN <<>>
    ELSE (IF s[1] = " " THEN <<"%", "2", "0">>
          ELSE IF s[1] = "\"" THEN <<"%", "2", "2">>
          ELSE <<s[1]>>) \o PercentEncode(Tail(s))

\* the reference as the parser reads it
UrlInput(s) == Trim(SelectSeq(s, LAMBDA c : c \notin {"\t", "\n", "\r"}))

\* the reference starts with a scheme: a letter, then letters, digits, "+", "-", ".", then ":"
HasScheme(ref) ==
    LET colon == IndexOf(ref, <<":">>, 1)
    IN  /\ colon > 1
        /\ ref[1] \in Letters
        /\ \A i \in 1..(colon - 1) : ref[i] \in Letters \cup Digits \cup {"+", "-", "."}

\* an absolute http(s) URL: its origin (scheme://host) and the segments of its path
ParseAbsolute(u) ==
    LET schemeLen == IF StartsWith(u, HttpsScheme) THEN 8 ELSE 7
        rest == From(u, schemeLen + 1)
        hEnd == FirstOf(rest, {"/", "?", "#"}, 1)
        host == SubSeq(rest, 1, hEnd - 1)
        pEnd == FirstOf(rest, {"?", "#"}, hEnd)
        path == SubSeq(rest, hEnd, pEnd - 1)
    IN  [ok |-> /\ StartsWith(u, HttpScheme) \/ StartsWith(u, HttpsScheme)
                /\ host # <<>>
                /\ Range(host) \cap ForbiddenHost = {},
         origin |-> SubSeq(u, 1, schemeLen) \o host,
         segs |-> IF path = <<>> THEN <<>> ELSE Split(Tail(path), "/")]

\* the path with its last segment removed
Shorten(segs) == IF segs = <<>> THEN <<>> ELSE SubSeq(segs, 1, Len(segs) - 1)

RECURSIVE RemoveDots(_, _)
\* the parser's path state: segs appended to the path out, "." and ".." resolved
RemoveDots(out, segs) ==
    IF segs = <<>> THEN out
    ELSE LET seg == Head(segs)
             last == Len(segs) = 1
         IN  IF seg = <<".", ".">>
             THEN RemoveDots(IF last THEN Append(Shorten(out), <<>>) ELSE Shorten(out),
                             Tail(segs))
             ELSE IF seg = <<".">>
             THEN RemoveDots(IF last THEN Append(out, <<>>) ELSE out, Tail(segs))
             ELSE RemoveDots(Append(out, PercentEncode(seg)), Tail(segs))

UrlFailure == [ok |-> FALSE, url |-> <<>>]

ResolveURL(reference, base) ==
    LET ref == UrlInput(reference)
        b == ParseAbsolute(base)
        qAt == FirstOf(ref, {"?", "#"}, 1)
        refPath == SubSeq(ref, 1, qAt - 1)
        refTail == From(ref, qAt)
        scheme == SubSeq(base, 1, IndexOf(base, <<":">>, 1))
    IN  IF ~b.ok THEN UrlFailure
        ELSE IF HasScheme(ref) THEN [ok |-> TRUE, url |-> ref]
        ELSE IF StartsWith(ref, <<"/", "/">>)
        THEN LET a == ParseAbsolute(scheme \o refPath)
             IN  IF ~a.ok THEN UrlFailure
                 ELSE [ok |-> TRUE,
                       url |-> a.origin \o <<"/">>
                               \o Join(RemoveDots(<<>>, a.segs), <<"/">>) \o refTail]
        ELSE IF StartsWith(ref, <<"/">>)
        THEN [ok |-> TRUE,
              url |-> b.origin \o <<"/">>
                      \o Join(RemoveDots(<<>>, Split(Tail(refPath), "/")), <<"/">>)
                      \o refTail]
        ELSE IF refPath = <<>>
        THEN [ok |-> TRUE,
              url |-> b.origin \o <<"/">> \o Join(b.segs, <<"/">>) \o refTail]
        ELSE [ok |-> TRUE,
              url |-> b.origin \o <<"/">>
                      \o Join(RemoveDots(Shorten(b.segs), Split(refPath, "/")), <<"/">>)
                      \o refTail]

(***************************************************************************)
(* convertRelativeImageUrls (src/main.ts:481-536).                         *)
(***************************************************************************)
DataScheme == <<"d", "a", "t", "a", ":">>
BlobScheme == <<"b", "l", "o", "b", ":">>

\* baseUrl with a "/" appended when it does not end in one (src/main.ts:493-497)
NormalizedBaseUrl(baseUrl) ==
    IF EndsWith(baseUrl, <<"/">>) THEN baseUrl ELSE baseUrl \o <<"/">>

RECURSIVE RelativeReplacements(_, _, _)
\* the replacements the exec loop collects (src/main.ts:501-526)
RelativeReplacements(md, ms, normalizedBaseUrl) ==
    IF ms = <<>> THEN <<>>
    ELSE LET m == Head(ms)
             rest == RelativeReplacements(md, Tail(ms), normalizedBaseUrl)
         IN  IF StartsWith(m.url, HttpScheme) \/ StartsWith(m.url, HttpsScheme)
             THEN rest
             ELSE IF StartsWith(m.url, DataScheme) \/ StartsWith(m.url, BlobScheme)
             THEN rest
             ELSE LET absoluteUrl == ResolveURL(m.url, normalizedBaseUrl)
                  IN  IF absoluteUrl.ok
                      THEN <<[original |-> FullMatch(md, m),
                              replacement |-> ImageSpan(m.alt, absoluteUrl.url)]>>
                           \o rest
                      ELSE rest

convertRelativeImageUrls(markdownContent, baseUrl) ==
    ApplyReplacements(markdownContent,
                      RelativeReplacements(markdownContent,
                                           ImageMatches(markdownContent),
                                           NormalizedBaseUrl(baseUrl)))

(***************************************************************************)
(* Tag suggestion (src/main.ts:58-164).                                    *)
(***************************************************************************)
UpperLetters ==
    <<"A", "B", "C", "D", "E", "F", "G", "H", "I", "J", "K", "L", "M", "N", "O",
      "P", "Q", "R", "S", "T", "U", "V", "W", "X", "Y", "Z">>
LowerLetters ==
    <<"a", "b", "c", "d", "e", "f", "g", "h", "i", "j", "k", "l", "m", "n", "o",
      "p", "q", "r", "s", "t", "u", "v", "w", "x", "y", "z">>

LowerChar(c) ==
    IF \E i \in 1..26 : UpperLetters[i] = c
    THEN LowerLetters[CHOOSE i \in 1..26 : UpperLetters[i] = c]
    ELSE c

\* s.toLowerCase()
ToLowerCase(s) == [i \in 1..Len(s) |-> LowerChar(s[i])]

\* the last part of the path (src/main.ts:70-71, 136-137)
LeafName(path) == LET parts == Split(path, "/") IN parts[Len(parts)]

\* the characters of the class [\s-_]
WordSeparators == WhiteSpace \cup {"-", "_"}

RECURSIVE SplitWords(_)
\* s.split(/[\s-_]+/)
SplitWords(s) ==
    LET i == FirstOf(s, WordSeparators, 1)
    IN  IF i > Len(s) THEN <<s>>
        ELSE LET seps == { j \in i..Len(s) : \A k \in i..j : s[k] \in WordSeparators }
                 j == CHOOSE k \in seps : \A l \in seps : k >= l
             IN  <<SubSeq(s, 1, i - 1)>> \o SplitWords(From(s, j + 1))

\* the score with the words of every length counted
FolderScoreAnyLength(lowerText, folderName) ==
    LET lowerFolderName == ToLowerCase(folderName)
        folderWords == SplitWords(lowerFolderName)
    IN  (IF Includes(lowerText, lowerFolderName) THEN 10 ELSE 0)
        + 3 * Cardinality({ i \in 1..Len(folderWords) :
                             Includes(lowerText, folderWords[i]) })

\* the score of one folder name against the lower-cased text (src/main.ts:141-154)
FolderScore(lowerText, folderName) ==
    LET lowerFolderName == ToLowerCase(folderName)
        folderWords == SplitWords(lowerFolderName)
    IN  (IF Includes(lowerText, lowerFolderName) THEN 10 ELSE 0)
        + 3 * Cardinality({ i \in 1..Len(folderWords) :
                             Len(folderWords[i]) > 2 /\ Includes(lowerText, folderWords[i]) })

\* folders that are not the root (src/main.ts:68, 133)
NonRoot(folders) == SelectSeq(folders, LAMBDA f : f # <<>> /\ f # <<"/">>)

RECURSIVE InsertByScore(_, _)
\* t put into the list sorted by descending score, behind the entries of equal score
InsertByScore(t, sorted) ==
    IF sorted = <<>> THEN <<t>>
    ELSE IF Head(sorted).score >= t.score
    THEN <<Head(sorted)>> \o InsertByScore(t, Tail(sorted))
    ELSE <<t>> \o sorted

RECURSIVE SortByScore(_, _)
\* tags.sort((a, b) => b.score - a.score): a stable sort
SortByScore(tags, sorted) ==
    IF tags = <<>> THEN sorted
    ELSE SortByScore(Tail(tags), InsertByScore(Head(tags), sorted))

\* the whole list kept
SliceAll(xs) == xs

\* tags.slice(0, 3)
Slice3(xs) == SubSeq(xs, 1, IF Len(xs) < 3 THEN Len(xs) ELSE 3)

suggestTagsKeyword(text, folders) ==
    LET lowerText == ToLowerCase(text)
        names == [i \in 1..Len(NonRoot(folders)) |-> LeafName(NonRoot(folders)[i])]
        scored == [i \in 1..Len(names) |->
                      [folder |-> names[i], score |-> FolderScore(lowerText, names[i])]]
        tags == SortByScore(SelectSeq(scored, LAMBDA t : t.score > 0), <<>>)
        top == Slice3(tags)
    IN  [i \in 1..Len(top) |-> top[i].folder]

\* What the chat request of suggestTagsOpenAI can come back with
\* (src/main.ts:79-112): the fetch rejects; the status is not 2xx; the body is
\* no JSON or holds no choices[0].message.content; the content is no JSON; the
\* content is JSON but no array; the content is an array.
ChatKinds == {"transportError", "notOk", "badBody", "notJson", "notArray", "array"}

\* the tags no request is needed for: [decided, tags]
\* (src/main.ts:59-76: no API key, or no folder to choose from)
TagsWithoutRequest(text, folders, apiKey) ==
    IF apiKey = <<>>
    THEN [decided |-> TRUE, tags |-> suggestTagsKeyword(text, folders)]
    ELSE IF Len(NonRoot(folders)) = 0
    THEN [decided |-> TRUE, tags |-> <<>>]
    ELSE [decided |-> FALSE, tags |-> <<>>]

\* a failed request gives no tags at all
TagsFromResponseNoFallback(text, folders, response) ==
    IF response.kind = "array" THEN Slice3(response.tags) ELSE <<>>

\* the tags once the request has come back (src/main.ts:102-123)
TagsFromResponse(text, folders, response) ==
    IF response.kind = "array" THEN Slice3(response.tags)
    ELSE suggestTagsKeyword(text, folders)

suggestTagsOpenAI(text, folders, apiKey, response) ==
    LET early == TagsWithoutRequest(text, folders, apiKey)
    IN  IF early.decided THEN early.tags
        ELSE TagsFromResponse(text, folders, response)

(***************************************************************************)
(* Titles, bodies, paths (src/main.ts:213-238, 287-332).                   *)
(***************************************************************************)
\* the characters replaced by "-" in a file name (src/main.ts:263, 425)
UnsafeChars == {"\\", "/", ":", "*", "?", "\"", "<", ">", "|"}

\* name.replace(/[\\/:*?"<>|]/g, '-')
Sanitize(name) == [i \in 1..Len(name) |-> IF name[i] \in UnsafeChars THEN "-" ELSE name[i]]

Ellipsis == <<".", ".", ".">>

\* s.replace(/\.\.\.$/, '')
StripEllipsis(s) == IF EndsWith(s, Ellipsis) THEN SubSeq(s, 1, Len(s) - 3) ELSE s

\* the longest title kept whole (src/main.ts:292)
TitleLimit == 50

UntitledNote ==
    <<"U", "n", "t", "i", "t", "l", "e", "d", " ", "N", "o", "t", "e">>

\* s.replace(/^#+\s*/, '')
StripHeaderMarks(s) ==
    LET hashes == { i \in 0..Len(s) : \A k \in 1..i : s[k] = "#" }
        h == CHOOSE i \in hashes : \A j \in hashes : i >= j
        spaces == { i \in h..Len(s) : \A k \in (h + 1)..i : s[k] \in WhiteSpace }
        e == CHOOSE i \in spaces : \A j \in spaces : i >= j
    IN  IF h = 0 THEN s ELSE From(s, e + 1)

\* the title left at its full length
generateTitleUncut(text) ==
    LET firstLine == Split(Trim(text), "\n")[1]
        cleaned == Trim(StripHeaderMarks(firstLine))
    IN  IF cleaned = <<>> THEN UntitledNote ELSE cleaned

\* src/main.ts:287-297
generateTitle(text) ==
    LET firstLine == Split(Trim(text), "\n")[1]
        cleaned == Trim(StripHeaderMarks(firstLine))
    IN  IF Len(cleaned) > TitleLimit
        THEN Trim(SubSeq(cleaned, 1, TitleLimit)) \o Ellipsis
        ELSE IF cleaned = <<>> THEN UntitledNote ELSE cleaned

RECURSIVE DemoteH1(_, _)
\* content.replace(/^# /gm, '## '), scanning from position i
DemoteH1(s, i) ==
    IF i > Len(s) THEN <<>>
    ELSE IF /\ OccursAt(s, <<"#", " ">>, i)
            /\ (i = 1 \/ s[i - 1] \in LineTerminators)
    THEN <<"#", "#", " ">> \o DemoteH1(s, i + 2)
    ELSE <<s[i]>> \o DemoteH1(s, i + 1)

\* content.replace(new RegExp("^#*\\s*" + escapedTitle, "i"), ""): the title, in
\* any case of its letters, behind the leading "#"s and the white space after them
StripLeadingTitle(content, title) ==
    LET hashes == { i \in 0..Len(content) : \A k \in 1..i : content[k] = "#" }
        h == CHOOSE i \in hashes : \A j \in hashes : i >= j
        spaces == { i \in h..Len(content) :
                       \A k \in (h + 1)..i : content[k] \in WhiteSpace }
        e == CHOOSE i \in spaces : \A j \in spaces : i >= j
    IN  IF OccursAt(ToLowerCase(content), ToLowerCase(title), e + 1)
        THEN From(content, e + 1 + Len(title))
        ELSE content

formatMarkdown(text, title) ==
    DemoteH1(Trim(StripLeadingTitle(Trim(text), StripEllipsis(title))), 1)

\* The frontmatter block (src/main.ts:314-332) as the record of what it is built
\* from and how it reads: tags is the array handed in, tagString its rendering
\* as a bracketed list joined by ", ", sources the source URL of the link (empty
\* when the key is left out).  The two timestamps are the same reading of the
\* clock and are left out.
createYamlFrontmatter(tags, sourceUrl) ==
    [tags |-> tags,
     tagString |-> IF Len(tags) > 0 THEN <<"[">> \o Join(tags, <<",", " ">>) \o <<"]">>
                   ELSE <<"[", "]">>,
     sources |-> sourceUrl]

RECURSIVE CollapseSlashes(_)
CollapseSlashes(s) ==
    IF Len(s) < 2 THEN s
    ELSE IF s[1] = "/" /\ s[2] = "/" THEN CollapseSlashes(Tail(s))
    ELSE <<s[1]>> \o CollapseSlashes(Tail(s))

\* Obsidian's normalizePath: runs of "/" collapsed, leading and trailing "/" removed
normalizePath(path) ==
    LET c == CollapseSlashes(path)
        a == IF StartsWith(c, <<"/">>) THEN Tail(c) ELSE c
        b == IF EndsWith(a, <<"/">>) THEN SubSeq(a, 1, Len(a) - 1) ELSE a
    IN  IF b = <<>> THEN <<"/">> ELSE b

RECURSIVE Decimal(_)
\* the counter in decimal, as a template literal prints it
Decimal(n) ==
    LET d == <<"0", "1", "2", "3", "4", "5", "6", "7", "8", "9">>[(n % 10) + 1]
    IN  IF n < 10 THEN <<d>> ELSE Decimal(n \div 10) \o <<d>>

\* notePath.substring(0, notePath.lastIndexOf('/'))
NoteDir(notePath) ==
    LET i == LastIndexOf(notePath, <<"/">>)
    IN  IF i = 0 THEN <<>> ELSE SubSeq(notePath, 1, i - 1)

getAttachmentFolder(notePath, attachmentFolderPath) ==
    LET noteDir == NoteDir(notePath)
    IN  IF attachmentFolderPath = <<>> \/ attachmentFolderPath = <<"/">>
        THEN (IF noteDir = <<>> THEN <<".">> ELSE noteDir)
        ELSE IF \/ StartsWith(attachmentFolderPath, <<"/">>)
                \/ ~Includes(attachmentFolderPath, <<".", "/">>)
        THEN attachmentFolderPath
        ELSE IF StartsWith(attachmentFolderPath, <<".", "/">>)
        THEN (IF noteDir = <<>> THEN From(attachmentFolderPath, 3)
              ELSE noteDir \o <<"/">> \o From(attachmentFolderPath, 3))
        ELSE attachmentFolderPath

(***************************************************************************)
(* isURL (src/main.ts:166-171).                                            *)
(***************************************************************************)
\* the scheme taken in either case
RegexHttpNoCase(t) ==
    \E k \in {4, 5} :
        /\ Len(t) >= k + 4
        /\ SubSeq(t, 1, 4) \in {<<"h", "t", "t", "p">>, <<"H", "T", "T", "P">>}
        /\ k = 5 => t[5] \in {"s", "S"}
        /\ SubSeq(t, k + 1, k + 3) = <<":", "/", "/">>
        /\ t[k + 4] \notin LineTerminators

\* /^https?:\/\/.+/.test(t): "http", an optional "s", "://", then at least one
\* character that is no line terminator (the rest of t is not constrained).
RegexHttp(t) ==
    \E k \in {4, 5} :
        /\ Len(t) >= k + 4
        /\ SubSeq(t, 1, 4) = <<"h", "t", "t", "p">>
        /\ k = 5 => t[5] = "s"
        /\ SubSeq(t, k + 1, k + 3) = <<":", "/", "/">>
        /\ t[k + 4] \notin LineTerminators

\* the trimmed text is tested without counting its lines
isURLNoSplit(text) == RegexHttp(Trim(text))

\* src/main.ts:166-171
isURL(text) ==
    LET trimmed == Trim(text)
    IN  IF Len(Split(trimmed, "\n")) > 1 THEN FALSE ELSE RegexHttp(trimmed)

(***************************************************************************)
(* fetchURLContent (src/main.ts:173-211): whether it returns; it throws    *)
(* when the request is rejected, the status is not 200 or the body is      *)
(* empty or blank.                                                         *)
(***************************************************************************)
fetchURLContentUnchecked(response) == ~response.rejected

fetchURLContent(response) ==
    /\ ~response.rejected
    /\ response.status = 200
    /\ response.text # <<>>
    /\ Trim(response.text) # <<>>

(***************************************************************************)
(* Inputs of isURL: every concatenation of at most MaxUrlPieces pieces.    *)
(***************************************************************************)
UrlPieces ==
    { <<"h", "t", "t", "p">>, <<"H", "T", "T", "P">>, <<"s">>,
      <<":", "/", "/">>, <<"x">>, <<" ">>, <<"\n">> }

RECURSIVE PieceTexts(_, _)
\* the texts made of at most n pieces of P
PieceTexts(P, n) ==
    IF n = 0 THEN {<<>>}
    ELSE LET shorter == PieceTexts(P, n - 1)
         IN  shorter \cup { t \o p : t \in shorter, p \in P }

UrlTexts == PieceTexts(UrlPieces, MaxUrlPieces)

(***************************************************************************)
(* Specification SpecUrl: isURL applied to a text.                         *)
(***************************************************************************)
NoVault == <<>>
NoSettings == <<>>
NoRun == <<>>

InitUrl ==
    /\ vault = NoVault
    /\ settings = NoSettings
    /\ run = NoRun
    /\ fnArg \in UrlTexts
    /\ fnRes = FALSE
    /\ fnStage = "in"

Classify ==
    /\ fnStage = "in"
    /\ fnRes' = isURL(fnArg)
    /\ fnStage' = "isURL"
    /\ UNCHANGED <<vault, settings, run, fnArg>>

NextUrl == Classify

SpecUrl == InitUrl /\ [][NextUrl]_vars

\* What C7 says of a text: trimmed, it has no newline and starts with http:// or
\* https:// in lower case, followed by at least one character.
SingleLineHttp(text) ==
    LET t == Trim(text)
    IN  /\ \A i \in 1..Len(t) : t[i] # "\n"
        /\ \/ StartsWith(t, HttpScheme) /\ Len(t) > Len(HttpScheme)
           \/ StartsWith(t, HttpsScheme) /\ Len(t) > Len(HttpsScheme)

\* C7: isURL(text) is true if and only if the trimmed text contains no newline and
\* matches ^https?://.+ with a lower-case scheme.
C7_isURLIffSingleLineHttp == fnStage = "isURL" => (fnRes <=> SingleLineHttp(fnArg))

\* a text in upper case was refused, one with white space around it was accepted
C7_Witness ==
    /\ fnStage = "isURL"
    /\ \/ fnArg = <<" ">> \o HttpScheme \o <<":", "/", "/", "x", " ">> /\ fnRes
       \/ fnArg = <<"H", "T", "T", "P", ":", "/", "/", "x">> /\ ~fnRes
       \/ fnArg = HttpsScheme /\ ~fnRes

(***************************************************************************)
(* Specification SpecAbs: convertRelativeImageUrls applied to a Markdown   *)
(* text and a base URL, and then to its own result.  The texts are the     *)
(* concatenations of at most MaxChunks chunks: plain text, or an image     *)
(* span with one of the alt texts and URLs below.  The URL group of the    *)
(* image expression admits every character but ")", so a URL may itself    *)
(* hold the opening of an image span.                                      *)
(***************************************************************************)
AbsAlts == { <<"a">>, <<"$", "$">>, <<"$", "&">> }

AbsUrls ==
    { <<"i">>,
      <<".", ".", "/", "l">>,
      <<"/", "r">>,
      HttpScheme \o <<"o", "/", "i">>,
      HttpsScheme \o <<"o", "/", "i">>,
      DataScheme \o <<"d">>,
      BlobScheme \o <<"b">>,
      HttpsScheme \o <<"o", "/", "!", "[", "a", "]", "(", "i">> }

AbsChunks ==
    { ImageSpan(alt, url) : alt \in AbsAlts, url \in AbsUrls } \cup { <<" ">>, <<"x">> }

AbsTexts == PieceTexts(AbsChunks, MaxChunks)

AbsBases ==
    { HttpsScheme \o <<"s", "/", "p">>,
      HttpsScheme \o <<"s", "/", "p", "/">>,
      HttpScheme \o <<"s">>,
      HttpsScheme \o <<"[">> }

InitAbs ==
    /\ vault = NoVault
    /\ settings = NoSettings
    /\ run = NoRun
    /\ fnArg \in [md : AbsTexts, base : AbsBases]
    /\ fnRes = <<>>
    /\ fnStage = "in"

\* content = await this.convertRelativeImageUrls(pageContent, url)
Absolutize ==
    /\ fnStage = "in"
    /\ fnRes' = <<convertRelativeImageUrls(fnArg.md, fnArg.base)>>
    /\ fnStage' = "once"
    /\ UNCHANGED <<vault, settings, run, fnArg>>

\* the pass run again on its own result
AbsolutizeAgain ==
    /\ fnStage = "once"
    /\ fnRes' = Append(fnRes, convertRelativeImageUrls(fnRes[1], fnArg.base))
    /\ fnStage' = "twice"
    /\ UNCHANGED <<vault, settings, run, fnArg>>

NextAbs == Absolutize \/ AbsolutizeAgain

SpecAbs == InitAbs /\ [][NextAbs]_vars

\* C9: the absolutize pass is idempotent: run on its own result it changes nothing.
\* (The statement of the claim; the code violates it.)
C9_Idempotent == fnStage = "twice" => fnRes[2] = fnRes[1]

RECURSIVE AbsolutizedInPlace(_, _, _, _)
\* What C10 describes: every image span of md, where it stands, keeps its alt text
\* and has its URL resolved against the base treated as a directory unless the URL
\* starts with http://, https://, data: or blob: (or cannot be resolved); the text
\* between the spans is unchanged.
AbsolutizedInPlace(md, ms, from, base) ==
    IF ms = <<>> THEN From(md, from)
    ELSE LET m == Head(ms)
             skipped == \E sch \in {HttpScheme, HttpsScheme, DataScheme, BlobScheme} :
                            StartsWith(m.url, sch)
             dir == IF EndsWith(base, <<"/">>) THEN base ELSE base \o <<"/">>
             abs == ResolveURL(m.url, dir)
         IN  SubSeq(md, from, m.start - 1)
             \o (IF skipped \/ ~abs.ok THEN FullMatch(md, m) ELSE ImageSpan(m.alt, abs.url))
             \o AbsolutizedInPlace(md, Tail(ms), m.end + 1, base)

\* C10: the pass resolves every relative image URL against the base as a directory,
\* leaves the alt text and the absolute, data: and blob: references as they are.
\* (The statement of the claim; the code violates it.)
C10_ResolvesEveryRelative ==
    fnStage = "once" =>
        fnRes[1] = AbsolutizedInPlace(fnArg.md, ImageMatches(fnArg.md), 1, fnArg.base)

(***************************************************************************)
(* Specification SpecTags: the two tag strategies applied to the same      *)
(* text and folders, the AI strategy with a key or none and with each      *)
(* thing the chat request can come back with.                              *)
(***************************************************************************)
TagTexts == { <<"w", "e", "b", " ", "a", "i">>, <<"Z", "z">>, <<"x">> }

FolderPool ==
    { <<"/">>, <<"W", "e", "b">>, <<"w", "e", "b", "-", "a", "i">>,
      <<"n", "/", "A", "I">>, <<"a", "i">>, <<"z", "z">> }

\* the lists of at most n different folders of the pool
FolderLists(n) ==
    { fs \in UNION { [1..k -> FolderPool] : k \in 0..n } :
        \A i, j \in 1..Len(fs) : i # j => fs[i] # fs[j] }

TagA == <<"t", "a">>
TagB == <<"t", "b">>

ChatResponses ==
    { [kind |-> k, tags |-> <<>>] : k \in ChatKinds \ {"array"} }
    \cup { [kind |-> "array", tags |-> t] :
               t \in { <<TagA>>, <<TagA, TagB, TagA, TagB>> } }

InitTags ==
    /\ vault = NoVault
    /\ settings = NoSettings
    /\ run = NoRun
    /\ fnArg \in [text : TagTexts, folders : FolderLists(MaxFolders),
                  apiKey : { <<>>, <<"k">> }, response : ChatResponses]
    /\ fnRes = <<>>
    /\ fnStage = "in"

\* this.suggestTagsOpenAI(text)
SuggestOpenAI ==
    /\ fnStage = "in"
    /\ fnRes' = <<suggestTagsOpenAI(fnArg.text, fnArg.folders, fnArg.apiKey,
                                    fnArg.response)>>
    /\ fnStage' = "openAI"
    /\ UNCHANGED <<vault, settings, run, fnArg>>

\* this.suggestTagsKeyword(text) on the same text and folders
SuggestKeyword ==
    /\ fnStage = "openAI"
    /\ fnRes' = Append(fnRes, suggestTagsKeyword(fnArg.text, fnArg.folders))
    /\ fnStage' = "both"
    /\ UNCHANGED <<vault, settings, run, fnArg>>

NextTags == SuggestOpenAI \/ SuggestKeyword

SpecTags == InitTags /\ [][NextTags]_vars

\* C5: suggestTagsOpenAI returns exactly the result of suggestTagsKeyword on the same
\* text and folders whenever the API key is empty, the chat request fails in
\* transport, the response is not 2xx, the content does not parse as JSON or the
\* parsed value is not an array.
C5_FallsBackToKeyword ==
    (/\ fnStage = "both"
     /\ \/ fnArg.apiKey = <<>>
        \/ fnArg.response.kind \in {"transportError", "notOk", "badBody", "notJson",
                                    "notArray"})
        => fnRes[1] = fnRes[2]

\* a request made with a key came back not 2xx and the keyword tags were given
C5_Witness ==
    /\ fnStage = "both"
    /\ fnArg.apiKey # <<>>
    /\ fnArg.response.kind = "notOk"
    /\ Len(fnRes[2]) = 3
    /\ fnRes[1] = fnRes[2]

\* What C11 says of one folder: 10 if the lower-cased leaf name is a substring of
\* the lower-cased text, and 3 for every word of the leaf name, a word being a
\* longest stretch without white space, hyphen and underscore, that has more than
\* two characters and is a substring of the lower-cased text.
KeywordScore(text, folder) ==
    LET t == ToLowerCase(text)
        parts == Split(folder, "/")
        leaf == ToLowerCase(parts[Len(parts)])
        isSep(i) == leaf[i] \in {" ", "\t", "\n", "\r", "-", "_"}
        words == { w \in (1..Len(leaf)) \X (1..Len(leaf)) :
                     /\ w[1] <= w[2]
                     /\ \A i \in w[1]..w[2] : ~isSep(i)
                     /\ w[1] = 1 \/ isSep(w[1] - 1)
                     /\ w[2] = Len(leaf) \/ isSep(w[2] + 1) }
    IN  (IF Includes(t, leaf) THEN 10 ELSE 0)
        + 3 * Cardinality({ w \in words : /\ w[2] - w[1] + 1 > 2
                                          /\ Includes(t, SubSeq(leaf, w[1], w[2])) })

\* the positions of positive score, by descending score and, at equal score, in
\* ascending order, cut to the first 3
TopThree(score) ==
    LET scoring == { i \in DOMAIN score : score[i] > 0 }
        ahead(i) == Cardinality({ j \in scoring :
                                    \/ score[j] > score[i]
                                    \/ score[j] = score[i] /\ j < i })
        n == IF Cardinality(scoring) < 3 THEN Cardinality(scoring) ELSE 3
    IN  [k \in 1..n |-> CHOOSE i \in scoring : ahead(i) = k - 1]

\* What C11 says of the result: the leaf names of the non-root folders of positive
\* score, by descending score and, at equal score, in the order of the folder
\* list, cut to the first 3.
KeywordRanking(text, folders) ==
    LET top == TopThree([i \in 1..Len(folders) |->
                            IF folders[i] \in {<<>>, <<"/">>} THEN 0
                            ELSE KeywordScore(text, folders[i])])
    IN  [k \in 1..Len(top) |->
            LET parts == Split(folders[top[k]], "/") IN parts[Len(parts)]]

\* C11: suggestTagsKeyword scores each non-root folder 10 for its lower-cased leaf
\* name occurring in the lower-cased text plus 3 per word of more than two
\* characters occurring in it, and returns the leaf names of positive score by
\* descending score, ties in enumeration order, cut to the first 3.
C11_KeywordScoring ==
    fnStage = "both" => fnRes[2] = KeywordRanking(fnArg.text, fnArg.folders)

\* four folders score 13, 3, 10 and 10 on "web ai": the first of the two ties and
\* the highest are kept in order and the lowest is cut
C11_Witness ==
    /\ fnStage = "both"
    /\ fnArg.text = <<"w", "e", "b", " ", "a", "i">>
    /\ fnArg.folders = << <<"w", "e", "b", "-", "a", "i">>, <<"a", "i">>,
                          <<"n", "/", "A", "I">>, <<"W", "e", "b">> >>
    /\ fnRes[2] = << <<"W", "e", "b">>, <<"a", "i">>, <<"A", "I">> >>

(***************************************************************************)
(* Specification SpecTitle: generateTitle applied to a text.  The text is  *)
(* an optional blank, optional header marks, a first line of at most       *)
(* MaxLineLen characters with blanks around the 50th, and an optional      *)
(* second line.                                                            *)
(***************************************************************************)
\* n letters, with a blank at the positions of blanks
TitleLine(n, blanks) == [i \in 1..n |-> IF i \in blanks THEN " " ELSE "a"]

TitleTexts ==
    { lead \o marks \o TitleLine(n, blanks) \o rest :
        lead \in { <<>>, <<" ">> },
        marks \in { <<>>, <<"#", " ">>, <<"#", "#">> },
        n \in 0..MaxLineLen,
        blanks \in SUBSET ((TitleLimit - 1)..(TitleLimit + 1)),
        rest \in { <<>>, <<"\n", "x">> } }

InitTitle ==
    /\ vault = NoVault
    /\ settings = NoSettings
    /\ run = NoRun
    /\ fnArg \in TitleTexts
    /\ fnRes = <<>>
    /\ fnStage = "in"

\* title = await this.generateTitle(clipboardText)
Title ==
    /\ fnStage = "in"
    /\ fnRes' = generateTitle(fnArg)
    /\ fnStage' = "title"
    /\ UNCHANGED <<vault, settings, run, fnArg>>

NextTitle == Title

SpecTitle == InitTitle /\ [][NextTitle]_vars

\* s without the white space at its two ends
Stripped(s) ==
    LET inside == { i \in 1..Len(s) : s[i] \notin WhiteSpace }
    IN  IF inside = {} THEN <<>>
        ELSE SubSeq(s, CHOOSE i \in inside : \A j \in inside : i <= j,
                       CHOOSE i \in inside : \A j \in inside : i >= j)

\* The line C13 speaks of: the first line of the text, without its leading '#'
\* marks and without the white space around it.
CleanedFirstLine(text) ==
    LET t == Stripped(text)
        ends == { i \in 1..Len(t) : t[i] = "\n" }
        first == IF ends = {} THEN t
                 ELSE SubSeq(t, 1, (CHOOSE i \in ends : \A j \in ends : i <= j) - 1)
        others == { i \in 1..Len(first) : first[i] # "#" }
    IN  IF others = {} THEN <<>>
        ELSE Stripped(From(first, CHOOSE i \in others : \A j \in others : i <= j))

\* C13 as stated: a line longer than 50 characters gives exactly its first 50
\* characters followed by '...' (53 characters), a line of 1 to 50 characters is
\* returned unchanged, an empty line gives 'Untitled Note'.
C13_FirstFiftyThenEllipsis ==
    fnStage = "title" =>
        LET line == CleanedFirstLine(fnArg)
        IN  /\ Len(line) > 50 =>
                /\ fnRes = SubSeq(line, 1, 50) \o <<".", ".", ".">>
                /\ Len(fnRes) = 53
            /\ Len(line) \in 1..50 => fnRes = line
            /\ Len(line) = 0 => fnRes = UntitledNote

\* C13: a line longer than 50 characters gives its first 50 characters without
\* the white space at their end, followed by '...' (at most 53 characters); a
\* line of 1 to 50 characters is returned unchanged, an empty line gives
\* 'Untitled Note'.
C13_FirstFiftyTrimmedThenEllipsis ==
    fnStage = "title" =>
        LET line == CleanedFirstLine(fnArg)
        IN  /\ Len(line) > 50 =>
                /\ fnRes = Stripped(SubSeq(line, 1, 50)) \o <<".", ".", ".">>
                /\ Len(fnRes) <= 53
            /\ Len(line) \in 1..50 => fnRes = line
            /\ Len(line) = 0 => fnRes = UntitledNote

\* a line of 60 characters whose 50th is a blank gave 49 characters and '...'
C13_Witness ==
    /\ fnStage = "title"
    /\ fnArg = TitleLine(60, {50})
    /\ fnRes = TitleLine(49, {}) \o <<".", ".", ".">>

(***************************************************************************)
(* The vault and the runs of createNoteFromClipboard.                      *)
(*                                                                         *)
(* The vault is [folders, files, attachmentFolderPath]: the folders in     *)
(* the order getAllFolders lists them, the files as a function from path   *)
(* to content, and Obsidian's attachment folder setting.  A run is the     *)
(* record of the locals of one invocation; pc is the await it is           *)
(* suspended at.  Between two awaits the code runs without interruption,   *)
(* so an action is the code from the completion of one awaited call to     *)
(* the issue of the next.  log lists the calls a run has made to the       *)
(* world (HTTP, vault, workspace), notices the notices it has shown,       *)
(* response the answer to its page request and failed the images whose     *)
(* download gave back the remote URL.                                      *)
(***************************************************************************)
Procs == {1, 2}

Inbox == <<"I", "n", "b", "o", "x">>
DotMd == <<".", "m", "d">>
Draft == <<"D", "r", "a", "f", "t">>

\* this.app.vault.getAbstractFileByPath(path) is not null
Exists(v, path) == path \in Range(v.folders) \/ path \in DOMAIN v.files

\* contents of files
NoFrontmatter == [tags |-> <<>>, tagString |-> <<>>, sources |-> <<>>]
Note(frontmatter, body) == [kind |-> "note", frontmatter |-> frontmatter, body |-> body]
Binary(imageUrl) == [kind |-> "binary", frontmatter |-> NoFrontmatter, body |-> imageUrl]
OldFile == [kind |-> "old", frontmatter |-> NoFrontmatter, body |-> <<>>]

WithFile(v, path, content) == [v EXCEPT !.files = (path :> content) @@ @]
WithFolder(v, path) == [v EXCEPT !.folders = Append(@, path)]

IdleRun ==
    [pc |-> "idle", clipboardText |-> <<>>, url |-> <<>>, title |-> <<>>,
     pageContent |-> <<>>,
     content |-> <<>>, tags |-> <<>>, sourceUrl |-> <<>>, fullContent |-> OldFile,
     finalPath |-> <<>>, file |-> <<>>, imagePrefix |-> <<>>, lastIndex |-> 1,
     image |-> NoMatch, filename |-> <<>>, attachmentFolder |-> <<>>,
     imagePath |-> <<>>, replacements |-> <<>>, failed |-> <<>>,
     response |-> <<>>, notices |-> <<>>, log |-> <<>>]

Logged(r, op, arg) == [r EXCEPT !.log = Append(@, [op |-> op, arg |-> arg])]
Noticed(r, text) == [r EXCEPT !.notices = Append(@, text)]
At(r, pc) == [r EXCEPT !.pc = pc]

\* the outer catch of createNoteFromClipboard (src/main.ts:465-468)
Failed(r, v) == [r |-> At(Noticed(r, "Error creating note"), "done"), v |-> v]

\* leaf.openFile(file) is called (src/main.ts:460-461)
OpenNote(r, v) == [r |-> At(Logged(r, "openFile", r.file), "opening"), v |-> v]

\* the note is opened as it was created
SkipRewrite(r, v) == OpenNote(r, v)

\* the update of the note is called (src/main.ts:454-456)
FinishImages(r, v) ==
    LET contentWithLocalImages == ApplyReplacements(r.content, r.replacements)
        updated == Note(createYamlFrontmatter(r.tags, r.sourceUrl), contentWithLocalImages)
    IN  [r |-> At(Logged([r EXCEPT !.fullContent = updated], "modify", r.file),
                  "modifying"),
         v |-> v]

\* pathname.split('/').pop() || 'image.jpg', ".jpg" added to a name without a dot,
\* the prefix put in front (src/main.ts:564-574)
ImageFilename(u, prefix) ==
    LET segs == RemoveDots(<<>>, u.segs)
        last == IF segs = <<>> THEN <<>> ELSE segs[Len(segs)]
        named == IF last = <<>>
                 THEN <<"i", "m", "a", "g", "e", ".", "j", "p", "g">>
                 ELSE last
        filename == IF Includes(named, <<".">>) THEN named
                    ELSE named \o <<".", "j", "p", "g">>
    IN  prefix \o <<"_">> \o filename

RECURSIVE ScanImages(_, _)
\* The exec loop of downloadImagesInContent (src/main.ts:549-592) up to its next
\* await: images that are not http(s) or whose URL does not parse are passed
\* over; for the next one the download request is issued.  After the last
\* match the replacements are applied and the note is rewritten.
ScanImages(r, v) ==
    LET m == ImageExec(r.content, r.lastIndex)
        r1 == [r EXCEPT !.lastIndex = m.end + 1]
        u == ParseAbsolute(UrlInput(m.url))
    IN  IF m.start = 0 THEN FinishImages(r, v)
        ELSE IF ~StartsWith(m.url, HttpScheme) /\ ~StartsWith(m.url, HttpsScheme)
        THEN ScanImages(r1, v)
        ELSE IF ~u.ok THEN ScanImages(r1, v)
        ELSE [r |-> At(Logged([r1 EXCEPT !.image = m,
                                         !.filename = ImageFilename(u, r.imagePrefix)],
                              "requestImage", m.url),
                       "downloading"),
              v |-> v]

\* the note is rewritten as soon as one download has returned
ImageReturnedAndRewritten(r, v, localPath) ==
    FinishImages(Logged([r EXCEPT !.replacements =
                             Append(@, [original |-> FullMatch(r.content, r.image),
                                        replacement |-> ImageSpan(r.image.alt, localPath)])],
                        "imageReturned", localPath),
                 v)

\* downloadImage has returned localPath: the replacement is recorded and the
\* loop goes on (src/main.ts:579-587)
ImageReturned(r, v, localPath) ==
    ScanImages(Logged([r EXCEPT !.replacements =
                           Append(@, [original |-> FullMatch(r.content, r.image),
                                      replacement |-> ImageSpan(r.image.alt, localPath)]),
                                !.failed = IF localPath = r.image.url
                                           THEN Append(@, r.image) ELSE @],
                      "imageReturned", localPath),
               v)

\* safeFilename.replace(/\.[^.]+$/, ''): the name without its extension
BaseFilename(safeFilename) ==
    LET i == LastIndexOf(safeFilename, <<".">>)
    IN  IF i = 0 \/ i = Len(safeFilename) THEN safeFilename
        ELSE SubSeq(safeFilename, 1, i - 1)

\* safeFilename.match(/\.[^.]+$/)?.[0] || ''
Extension(safeFilename) ==
    LET i == LastIndexOf(safeFilename, <<".">>)
    IN  IF i = 0 \/ i = Len(safeFilename) THEN <<>> ELSE From(safeFilename, i)

\* the path of the image is taken without looking at the vault
FirstImagePath(v, folder, safeFilename, finalPath, counter) == finalPath

RECURSIVE FreeImagePath(_, _, _, _, _)
\* while (getAbstractFileByPath(finalPath)) { finalPath = ...; counter++ }
\* (src/main.ts:272-275)
FreeImagePath(v, folder, safeFilename, finalPath, counter) ==
    IF Exists(v, finalPath)
    THEN FreeImagePath(v, folder, safeFilename,
                       normalizePath(folder \o <<"/">> \o BaseFilename(safeFilename)
                                     \o <<"-">> \o Decimal(counter)
                                     \o Extension(safeFilename)),
                       counter + 1)
    ELSE finalPath

\* the file name is made safe, a free path is found and createBinary is called
\* (src/main.ts:262-278)
PlaceImage(r, v) ==
    LET safeFilename == Sanitize(r.filename)
        filePath == normalizePath(r.attachmentFolder \o <<"/">> \o safeFilename)
        finalPath == FreeImagePath(v, r.attachmentFolder, safeFilename, filePath, 1)
    IN  [r |-> At(Logged([r EXCEPT !.imagePath = finalPath], "createBinary", finalPath),
                  "writingImage"),
         v |-> v]

\* the first path that is free and that no other invocation is creating a note at
FreeNotePathReserved(v, safeTitle, finalPath, counter) ==
    LET reserved == { run[q].finalPath : q \in { q \in Procs : run[q].pc = "creating" } }
        pathOf(k) == IF k = 0 THEN finalPath
                     ELSE normalizePath(settings.inboxFolder \o <<"/">>
                                        \o StripEllipsis(safeTitle) \o <<"-">>
                                        \o Decimal(counter + k - 1) \o DotMd)
        free == { k \in 0..(Cardinality(DOMAIN v.files) + Cardinality(reserved)) :
                    ~Exists(v, pathOf(k)) /\ pathOf(k) \notin reserved }
    IN  pathOf(CHOOSE k \in free : \A j \in free : k <= j)

\* the path of the note is taken without looking at the vault
FirstNotePath(v, safeTitle, finalPath, counter) == finalPath

RECURSIVE FreeNotePath(_, _, _, _)
\* while (getAbstractFileByPath(finalPath)) { ...; counter++ } (src/main.ts:434-438)
FreeNotePath(v, safeTitle, finalPath, counter) ==
    IF Exists(v, finalPath)
    THEN FreeNotePath(v, safeTitle,
                      normalizePath(settings.inboxFolder \o <<"/">>
                                    \o StripEllipsis(safeTitle) \o <<"-">>
                                    \o Decimal(counter) \o DotMd),
                      counter + 1)
    ELSE finalPath

\* the file name is made safe, a free path is found and vault.create is called
\* (src/main.ts:424-443)
PlaceNote(r, v) ==
    LET safeTitle == Sanitize(r.title)
        filePath == normalizePath(settings.inboxFolder \o <<"/">> \o safeTitle \o DotMd)
        finalPath == FreeNotePath(v, safeTitle, filePath, 1)
    IN  [r |-> At(Logged([r EXCEPT !.finalPath = finalPath], "create", finalPath),
                  "creating"),
         v |-> v]

\* From the tags to the call that places the note (src/main.ts:391, 410-422): the
\* frontmatter and the full content are built, and ensureFolderExists either
\* finds the inbox folder or calls createFolder.
AfterTags(r, v) ==
    LET r1 == IF r.sourceUrl # <<>>
              THEN Noticed(r, "URL content fetched successfully")
              ELSE [r EXCEPT !.content = formatMarkdown(r.clipboardText, r.title)]
        r2 == [r1 EXCEPT !.fullContent =
                             Note(createYamlFrontmatter(r1.tags, r1.sourceUrl), r1.content)]
        normalizedPath == normalizePath(settings.inboxFolder)
    IN  IF Exists(v, normalizedPath) THEN PlaceNote(r2, v)
        ELSE [r |-> At(Logged(r2, "createFolder", normalizedPath), "creatingInbox"),
              v |-> v]

\* The tag strategy is chosen (src/main.ts:387-389, 404-406): the keyword
\* strategy, and the AI strategy without a key or without folders, give the
\* tags at once; otherwise the chat request is issued.
StartTags(r, v, text) ==
    IF ~settings.useOpenAI
    THEN AfterTags([r EXCEPT !.tags = suggestTagsKeyword(text, v.folders)], v)
    ELSE LET early == TagsWithoutRequest(text, v.folders, settings.openAIApiKey)
         IN  IF early.decided THEN AfterTags([r EXCEPT !.tags = early.tags], v)
             ELSE [r |-> At(Logged(r, "chatRequest", text), "tagging"), v |-> v]

\* the text the tags are suggested for: the page content of a web clip, else the
\* clipboard text
TaggedText(r) == IF r.sourceUrl # <<>> THEN r.pageContent ELSE r.clipboardText

(***************************************************************************)
(* What the world hands to a run.                                          *)
(***************************************************************************)
SiteUrl == HttpsScheme \o <<"s", "/", "p">>

ClipboardTexts ==
    { <<>>,
      <<" ", "\n">>,
      Draft,
      <<"#", " ">> \o Draft \o <<"\n", "#", " ", "m">>,
      SiteUrl,
      SiteUrl \o <<"\n">>,
      SiteUrl \o <<"\n", "x">> }

RemoteImage == HttpsScheme \o <<"o", "/", "i", ".", "p", "n", "g">>

PageMarkdowns ==
    { <<"x">>,
      ImageSpan(<<"a">>, <<"i", ".", "p", "n", "g">>),
      ImageSpan(<<"a">>, RemoteImage) \o ImageSpan(<<"a">>, RemoteImage),
      ImageSpan(<<"a">>, RemoteImage) \o ImageSpan(<<"b">>, HttpsScheme \o <<"o", "/", "j">>),
      ImageSpan(<<"a">>, DataScheme \o <<"d">>)
          \o ImageSpan(<<"a">>, HttpsScheme \o <<"o", "/", "$", "$", ".", "p", "n", "g">>) }

Html == <<"<", "p", ">">>

\* What requestUrl comes back with (src/main.ts:176-192): a rejected request, or a
\* status and a body.  title and markdown are what the parser and Turndown make
\* of the body (src/main.ts:194-206).
NoPage == [rejected |-> TRUE, status |-> 0, text |-> <<>>, title |-> <<>>, markdown |-> <<>>]

PageResponses ==
    { NoPage }
    \cup { [NoPage EXCEPT !.rejected = FALSE, !.status = st, !.text = body] :
               st \in {200, 404}, body \in { <<>>, <<" ", "\n">> } }
    \cup { [NoPage EXCEPT !.rejected = FALSE, !.status = 404, !.text = Html] }
    \cup { [rejected |-> FALSE, status |-> 200, text |-> Html,
             title |-> Draft, markdown |-> m] : m \in PageMarkdowns }
    \cup { [rejected |-> FALSE, status |-> 200, text |-> Html,
             title |-> Draft \o Ellipsis, markdown |-> <<"x">>] }

\* generateImagePrefix: three random characters (src/main.ts:471-479)
ImagePrefixes == { <<"x", "7", "k">>, <<"q", "2", "z">> }

(***************************************************************************)
(* The initial states: the settings as loaded, and a vault that may        *)
(* already hold the inbox folder, folders whose names occur in the         *)
(* clipboard text, and notes under the names a new note may take.          *)
(***************************************************************************)
Settings ==
    { [inboxFolder |-> Inbox, useOpenAI |-> ai.use, openAIApiKey |-> ai.key,
       downloadImages |-> d] :
          ai \in { [use |-> FALSE, key |-> <<>>], [use |-> TRUE, key |-> <<>>],
                   [use |-> TRUE, key |-> <<"k">>] },
          d \in BOOLEAN }

\* Inbox/Draft.md for k = 0, Inbox/Draft-k.md otherwise
DraftPath(k) ==
    Inbox \o <<"/">> \o Draft \o (IF k = 0 THEN <<>> ELSE <<"-">> \o Decimal(k)) \o DotMd

EllipsisPath == Inbox \o <<"/">> \o Draft \o Ellipsis \o DotMd

AttachmentSettings == { <<>>, <<".", "/", "a", "t", "t">>, <<"a", "t", "t">> }

TagFolders == << <<"/">>, Inbox, <<"D">>, <<"r">>, <<"a">>, <<"T", "/", "f">> >>

AttachmentFolder == Inbox \o <<"/", "a", "t", "t">>

\* Inbox/x7k_i.png for k = 0, Inbox/x7k_i-k.png otherwise: where the image i.png is
\* saved under the prefix x7k next to a note of the inbox
SavedImagePath(k) ==
    Inbox \o <<"/", "x", "7", "k", "_", "i">>
          \o (IF k = 0 THEN <<>> ELSE <<"-">> \o Decimal(k)) \o <<".", "p", "n", "g">>

\* the vaults a run may start in: without or with the inbox folder and with any of
\* the notes Draft.md, Draft-k.md, Draft....md already there; with folders to
\* take tags from; with each attachment folder setting, the folder there or not;
\* with images already saved under the names a download may take
InitialVaults ==
    { [folders |-> <<>>, files |-> <<>>, attachmentFolderPath |-> <<>>] }
    \cup { [folders |-> <<Inbox>>,
            files |-> [path \in { DraftPath(k) : k \in taken }
                                \cup (IF e THEN {EllipsisPath} ELSE {}) |-> OldFile],
            attachmentFolderPath |-> <<>>] :
               taken \in SUBSET (0..MaxTaken), e \in BOOLEAN }
    \cup { [folders |-> TagFolders,
            files |-> [path \in { DraftPath(k) : k \in taken } |-> OldFile],
            attachmentFolderPath |-> <<>>] :
               taken \in SUBSET {0} }
    \cup { [folders |-> f,
            files |-> [path \in { DraftPath(k) : k \in taken } |-> OldFile],
            attachmentFolderPath |-> a] :
               f \in { <<Inbox>>, <<Inbox, AttachmentFolder>> },
               taken \in SUBSET {0},
               a \in AttachmentSettings \ {<<>>} }
    \cup { [folders |-> <<Inbox>>,
            files |-> [path \in { SavedImagePath(k) : k \in taken } |-> OldFile],
            attachmentFolderPath |-> <<>>] :
               taken \in (SUBSET {0, 1}) \ {{}} }

Init ==
    /\ vault \in InitialVaults
    /\ settings \in Settings
    /\ run = [p \in Procs |-> IdleRun]
    /\ fnArg = <<>>
    /\ fnRes = <<>>
    /\ fnStage = "run"

\* the run of p goes on as next says
Continue(p, next) ==
    /\ run' = [run EXCEPT ![p] = next.r]
    /\ vault' = next.v
    /\ UNCHANGED <<settings, fnArg, fnRes, fnStage>>

\* The ribbon icon or the command is used (src/main.ts:39-51): the clipboard is
\* read and classified (src/main.ts:352-372, 396-406).
createNoteFromClipboard(p) ==
    /\ run[p].pc = "idle"
    /\ \E clipboardText \in ClipboardTexts :
        LET r == [run[p] EXCEPT !.clipboardText = clipboardText]
        IN  Continue(p,
                IF Trim(clipboardText) = <<>>
                THEN [r |-> At(Noticed(r, "Clipboard is empty"), "done"), v |-> vault]
                ELSE IF isURL(clipboardText)
                THEN [r |-> At(Logged(Noticed([r EXCEPT !.url = Trim(clipboardText)],
                                              "Fetching content from URL..."),
                                      "requestPage", Trim(clipboardText)),
                               "fetching"),
                      v |-> vault]
                ELSE StartTags([Noticed(r, "Processing clipboard content...")
                                    EXCEPT !.title = generateTitle(clipboardText)],
                               vault, clipboardText))

\* requestUrl for the page returns (src/main.ts:375-395): fetchURLContent throws
\* and the run ends with a notice, or the page is taken and the tags are started
PageReturns(p) ==
    /\ run[p].pc = "fetching"
    /\ \E response \in PageResponses :
        LET r == [run[p] EXCEPT !.response = response]
        IN  Continue(p,
                IF ~fetchURLContent(response)
                THEN [r |-> At(Noticed(r, "Failed to fetch URL"), "done"), v |-> vault]
                ELSE StartTags([r EXCEPT !.title = response.title,
                                         !.sourceUrl = r.url,
                                         !.pageContent = response.markdown,
                                         !.content =
                                             convertRelativeImageUrls(response.markdown,
                                                                      r.url)],
                               vault, response.markdown))

\* the chat request of suggestTagsOpenAI returns or fails (src/main.ts:100-123)
ChatReturns(p) ==
    /\ run[p].pc = "tagging"
    /\ \E response \in ChatResponses :
        LET r == run[p]
        IN  Continue(p,
                AfterTags([r EXCEPT !.tags =
                              TagsFromResponse(TaggedText(r), vault.folders, response)],
                          vault))

\* createFolder for the inbox returns or throws (src/main.ts:340-346, 422)
InboxCreated(p) ==
    /\ run[p].pc = "creatingInbox"
    /\ \E ok \in BOOLEAN :
        LET r == run[p]
            path == normalizePath(settings.inboxFolder)
        IN  /\ ok => ~Exists(vault, path)
            /\ Continue(p, IF ok THEN PlaceNote(r, WithFolder(vault, path))
                           ELSE Failed(r, vault))

\* vault.create returns the file or throws (src/main.ts:443-451)
NoteCreated(p) ==
    /\ run[p].pc = "creating"
    /\ \E ok \in BOOLEAN, prefix \in ImagePrefixes :
        LET r == [run[p] EXCEPT !.file = run[p].finalPath]
            v == WithFile(vault, r.finalPath, r.fullContent)
        IN  /\ ok => ~Exists(vault, r.finalPath)
            /\ Continue(p,
                   IF ~ok THEN Failed(run[p], vault)
                   ELSE IF r.sourceUrl # <<>> /\ settings.downloadImages
                   THEN ScanImages([Noticed(r, "Downloading images...")
                                        EXCEPT !.imagePrefix = prefix], v)
                   ELSE OpenNote(r, v))

\* requestUrl for an image returns (src/main.ts:243-260)
ImageFetched(p) ==
    /\ run[p].pc = "downloading"
    /\ \E ok \in BOOLEAN :
        LET folder == getAttachmentFolder(run[p].file, vault.attachmentFolderPath)
            r == [run[p] EXCEPT !.attachmentFolder = folder]
        IN  Continue(p,
                IF ~ok THEN ImageReturned(run[p], vault, run[p].image.url)
                ELSE IF /\ folder # <<".">>
                        /\ folder # <<"/">>
                        /\ ~Exists(vault, normalizePath(folder))
                THEN [r |-> At(Logged(r, "createFolder", normalizePath(folder)),
                               "creatingAttachmentFolder"),
                      v |-> vault]
                ELSE PlaceImage(r, vault))

\* createFolder for the attachment folder returns or throws (src/main.ts:259)
AttachmentFolderCreated(p) ==
    /\ run[p].pc = "creatingAttachmentFolder"
    /\ \E ok \in BOOLEAN :
        LET r == run[p]
            path == normalizePath(r.attachmentFolder)
        IN  /\ ok => ~Exists(vault, path)
            /\ Continue(p, IF ok THEN PlaceImage(r, WithFolder(vault, path))
                           ELSE ImageReturned(r, vault, r.image.url))

\* createBinary returns or throws (src/main.ts:278-284)
ImageWritten(p) ==
    /\ run[p].pc = "writingImage"
    /\ \E ok \in BOOLEAN :
        LET r == run[p]
        IN  /\ ok => ~Exists(vault, r.imagePath)
            /\ Continue(p,
                   IF ok THEN ImageReturned(r, WithFile(vault, r.imagePath,
                                                        Binary(r.image.url)),
                                            r.imagePath)
                   ELSE ImageReturned(r, vault, r.image.url))

\* vault.modify returns or throws (src/main.ts:456)
NoteModified(p) ==
    /\ run[p].pc = "modifying"
    /\ \E ok \in BOOLEAN :
        LET r == run[p]
        IN  Continue(p, IF ok THEN OpenNote(r, WithFile(vault, r.file, r.fullContent))
                        ELSE Failed(r, vault))

\* leaf.openFile returns or throws (src/main.ts:461-463)
NoteOpened(p) ==
    /\ run[p].pc = "opening"
    /\ \E ok \in BOOLEAN :
        LET r == run[p]
        IN  Continue(p, IF ok THEN [r |-> At(Noticed(r, "Note created"), "done"),
                                    v |-> vault]
                        ELSE Failed(r, vault))

RunStep(p) ==
    \/ createNoteFromClipboard(p)
    \/ PageReturns(p)
    \/ ChatReturns(p)
    \/ InboxCreated(p)
    \/ NoteCreated(p)
    \/ ImageFetched(p)
    \/ AttachmentFolderCreated(p)
    \/ ImageWritten(p)
    \/ NoteModified(p)
    \/ NoteOpened(p)

\* one invocation
Next == RunStep(1)

Spec == Init /\ [][Next]_vars

(***************************************************************************)
(* Properties of a run.                                                    *)
(***************************************************************************)
\* the number of calls of op a run has made
Calls(r, op) == Cardinality({ i \in 1..Len(r.log) : r.log[i].op = op })

VaultCalls == {"create", "modify", "createBinary", "createFolder"}

\* <inbox>/<sanitized title>.md for k = 0, <inbox>/<base>-k.md for k >= 1
NotePathOf(title, k) ==
    normalizePath(settings.inboxFolder \o <<"/">>
                  \o (IF k = 0 THEN Sanitize(title)
                      ELSE StripEllipsis(Sanitize(title)) \o <<"-">> \o Decimal(k))
                  \o DotMd)

\* C1: the path at which the note is created does not exist in the vault at the
\* moment of the create call: it is <inbox>/<sanitized title>.md if that is free,
\* otherwise <inbox>/<base>-k.md for the smallest k >= 1 whose path is free; and
\* the create overwrites no existing file.
C1_CreatesAtFirstFreePath ==
    /\ [](\A p \in Procs :
            run[p].pc = "creating" =>
                /\ ~Exists(vault, run[p].finalPath)
                /\ \E k \in 0..(MaxTaken + 1) :
                    /\ run[p].finalPath = NotePathOf(run[p].title, k)
                    /\ \A j \in 0..(k - 1) : Exists(vault, NotePathOf(run[p].title, j)))
    /\ [][\A p \in Procs :
            run[p].pc = "creating" =>
                \A path \in DOMAIN vault.files :
                    path \in DOMAIN vault'.files /\ vault'.files[path] = vault.files[path]]_vars

\* Draft.md and Draft-1.md were there and the note was created as Draft-2.md
C1_Witness ==
    /\ run[1].finalPath = DraftPath(2)
    /\ run[1].file = DraftPath(2)
    /\ vault.files[DraftPath(0)] = OldFile
    /\ vault.files[DraftPath(1)] = OldFile
    /\ vault.files[DraftPath(2)].kind = "note"

\* C2: the note is created at most once, and it is rewritten exactly once if and
\* only if the clipboard was a URL, downloadImages is enabled and the create
\* succeeded; otherwise it is never modified.
C2_CreatedOnceRewrittenOnce ==
    \A p \in Procs :
        LET r == run[p]
        IN  /\ Calls(r, "create") <= 1
            /\ Calls(r, "modify") <= 1
            /\ r.file = <<>> => Calls(r, "modify") = 0
            /\ (r.file # <<>> /\ r.pc \in {"modifying", "opening", "done"}) =>
                   (Calls(r, "modify") = 1
                        <=> (isURL(r.clipboardText) /\ settings.downloadImages))

\* a web clip was created, rewritten once and opened
C2_Witness ==
    /\ run[1].pc = "done"
    /\ Calls(run[1], "create") = 1
    /\ Calls(run[1], "modify") = 1
    /\ run[1].notices[Len(run[1].notices)] = "Note created"

\* the page request was answered with a status other than 200 or with an empty or
\* blank body
PageFetchFailed(r) ==
    /\ r.response # <<>>
    /\ ~r.response.rejected
    /\ r.response.status # 200 \/ Trim(r.response.text) = <<>>

\* C3: when the page fetch returns a status other than 200 or an empty or blank
\* body, the run ends with a notice and creates no note: it makes no create,
\* modify, createBinary or createFolder call and the vault is unchanged.
C3_FailedFetchCreatesNothing ==
    /\ [](\A p \in Procs :
            PageFetchFailed(run[p]) =>
                /\ run[p].pc = "done"
                /\ run[p].notices[Len(run[p].notices)] = "Failed to fetch URL"
                /\ \A i \in 1..Len(run[p].log) : run[p].log[i].op \notin VaultCalls)
    /\ [][\A p \in Procs : PageFetchFailed(run'[p]) => vault' = vault]_vars

\* the page came back with status 404 and a body, and the run has ended
C3_Witness ==
    /\ run[1].response # <<>>
    /\ ~run[1].response.rejected
    /\ run[1].response.status = 404
    /\ run[1].response.text = Html
    /\ run[1].pc = "done"

\* C4: for any image whose download fails, the image reference in the rewritten
\* note keeps its absolute URL, and the note is still rewritten.
\* (The statement of the claim; the code violates it.)
C4_FailedImageKeepsUrl ==
    \A p \in Procs :
        run[p].pc = "modifying" =>
            \A i \in 1..Len(run[p].failed) :
                Includes(run[p].fullContent.body,
                         <<"]", "(">> \o run[p].failed[i].url \o <<")">>)

\* <folder>/<sanitized filename> for k = 0, <folder>/<base>-k<ext> for k >= 1
ImagePathOf(r, k) ==
    LET safeFilename == Sanitize(r.filename)
    IN  normalizePath(r.attachmentFolder \o <<"/">>
                      \o (IF k = 0 THEN safeFilename
                          ELSE BaseFilename(safeFilename) \o <<"-">> \o Decimal(k)
                               \o Extension(safeFilename)))

\* the paths at which the downloads of a run have saved an image, in order
SavedPaths(r) ==
    LET saved == SelectSeq(r.log, LAMBDA e : e.op = "imageReturned" /\ ~HasScheme(e.arg))
    IN  [i \in 1..Len(saved) |-> saved[i].arg]

\* C12: every download persists the bytes at a path that did not exist when
\* createBinary was called: <attachment dir>/<sanitized filename> if free, else
\* <base>-k<ext> for the smallest free k >= 1; the images of one run are saved at
\* pairwise distinct paths and no file already there is overwritten.
C12_ImagesSavedAtFreePaths ==
    /\ [](\A p \in Procs :
            /\ run[p].pc = "writingImage" =>
                /\ ~Exists(vault, run[p].imagePath)
                /\ \E k \in 0..(MaxTaken + 2) :
                    /\ run[p].imagePath = ImagePathOf(run[p], k)
                    /\ \A j \in 0..(k - 1) : Exists(vault, ImagePathOf(run[p], j))
            /\ \A i, j \in 1..Len(SavedPaths(run[p])) :
                   i # j => SavedPaths(run[p])[i] # SavedPaths(run[p])[j])
    /\ [][\A p \in Procs :
            run[p].pc = "writingImage" =>
                \A path \in DOMAIN vault.files :
                    path \in DOMAIN vault'.files /\ vault'.files[path] = vault.files[path]]_vars

\* x7k_i.png was already there, and the same image referenced twice was saved as
\* x7k_i-1.png and as x7k_i-2.png
C12_Witness ==
    /\ SavedPaths(run[1]) = <<SavedImagePath(1), SavedImagePath(2)>>
    /\ vault.files[SavedImagePath(0)] = OldFile
    /\ vault.files[SavedImagePath(1)] = Binary(RemoteImage)
    /\ vault.files[SavedImagePath(2)] = Binary(RemoteImage)

\* C6: the tag list placed in the frontmatter of any written note has at most 3
\* elements, whichever strategy produced it and whatever the chat service returned.
C6_AtMostThreeTags ==
    \A path \in DOMAIN vault.files :
        vault.files[path].kind = "note" => Len(vault.files[path].frontmatter.tags) <= 3

\* the chat service returned four tags and the note was written with three
C6_Witness ==
    /\ Calls(run[1], "chatRequest") = 1
    /\ run[1].file # <<>>
    /\ run[1].file \in DOMAIN vault.files
    /\ vault.files[run[1].file].frontmatter.tags = <<TagA, TagB, TagA>>

\* the positions of the calls of op in the log of a run
CallsAt(r, op) == { i \in 1..Len(r.log) : r.log[i].op = op }

\* the URLs of the images of the content that are downloaded, in the order in
\* which their references appear: those with an http(s) URL that parses
Downloadable(content) ==
    LET remote == SelectSeq(ImageMatches(content),
                            LAMBDA m : /\ \/ StartsWith(m.url, HttpScheme)
                                          \/ StartsWith(m.url, HttpsScheme)
                                       /\ ParseAbsolute(UrlInput(m.url)).ok)
    IN  [i \in 1..Len(remote) |-> remote[i].url]

\* the URLs of the downloads a run has started, in the order of their start
Requested(r) ==
    LET started == SelectSeq(r.log, LAMBDA e : e.op = "requestImage")
    IN  [i \in 1..Len(started) |-> started[i].arg]

\* the steps of the run r are in the order C14 describes, all being the URLs of the
\* images to download
StepsInOrder(r, all) ==
    LET requested == Requested(r)
        starts == CallsAt(r, "requestImage")
        returns == CallsAt(r, "imageReturned")
        creates == CallsAt(r, "create")
    IN  /\ r.log # <<>> /\ r.log[1].op = "requestPage"
        /\ r.pc = "fetching" => r.tags = <<>> /\ r.response = <<>> /\ Len(r.log) = 1
        /\ \A i \in CallsAt(r, "chatRequest") :
               r.response # <<>> /\ \A j \in creates : i < j
        /\ r.pc = "tagging" => creates = {}
        /\ \A i \in starts :
               /\ r.file # <<>> /\ r.file \in DOMAIN vault.files
               /\ \A j \in creates : j < i
               \* every download started earlier has returned
               /\ Cardinality({ j \in returns : j < i })
                      = Cardinality({ j \in starts : j < i })
        /\ Len(requested) <= Len(all)
        /\ \A i \in 1..Len(requested) : requested[i] = all[i]
        /\ \A i \in CallsAt(r, "modify") :
               /\ Len(requested) = Len(all)
               /\ Cardinality(returns) = Len(all)
               /\ \A j \in starts \cup returns : j < i
        /\ r.pc \in {"downloading", "creatingAttachmentFolder", "writingImage"} =>
               /\ CallsAt(r, "modify") = {}
               /\ vault.files[r.file].body = r.content

\* C14: in a URL run with downloads enabled, the page fetch completes before the
\* tag suggestion, the tag suggestion before the note is created, the note is
\* created before the first download starts, the downloads run one at a time in
\* the order of the references in the Markdown, and the note is rewritten only
\* after every download has finished, the replacements being applied then and not
\* during the scan.
C14_StepsInOrder ==
    \A p \in Procs :
        (run[p].url # <<>> /\ settings.downloadImages) =>
            StepsInOrder(run[p], Downloadable(run[p].content))

\* a page with two images was fetched, tagged by the chat service, created, its
\* images downloaded one after the other, and the note rewritten and opened
C14_Witness ==
    /\ run[1].pc = "done"
    /\ [i \in 1..Len(run[1].log) |-> run[1].log[i].op]
           = <<"requestPage", "chatRequest", "create", "requestImage", "createBinary",
               "imageReturned", "requestImage", "imageReturned", "modify", "openFile">>
    /\ Requested(run[1]) = <<RemoteImage, HttpsScheme \o <<"o", "/", "j">> >>

HasNewline(text) == \E i \in 1..Len(text) : text[i] = "\n"

\* C8 as stated: a clipboard text with a newline anywhere, a leading or trailing
\* one included, is never fetched as a page.
C8_AnyNewlineNeverFetches ==
    \A p \in Procs :
        HasNewline(run[p].clipboardText) => Calls(run[p], "requestPage") = 0

\* C8: a clipboard text that still holds a newline once trimmed is not classified
\* as a URL: the run takes the plain-text path and never fetches a page.
C8_InnerNewlineNeverFetches ==
    \A p \in Procs :
        (run[p].pc # "idle" /\ HasNewline(Trim(run[p].clipboardText))) =>
            /\ Calls(run[p], "requestPage") = 0
            /\ run[p].url = <<>>
            /\ run[p].notices[1] = "Processing clipboard content..."

\* a URL followed by a second line was written as a plain-text note
C8_Witness ==
    /\ run[1].clipboardText = SiteUrl \o <<"\n", "x">>
    /\ run[1].pc = "done"
    /\ Calls(run[1], "create") = 1
    /\ run[1].sourceUrl = <<>>

(***************************************************************************)
(* Specification SpecRace: two invocations of createNoteFromClipboard, one *)
(* from the ribbon icon and one from the command, whose steps interleave   *)
(* at their awaits.  No lock is taken (src/main.ts:39-51, 352-469), so     *)
(* every step of either invocation is enabled whenever its await has       *)
(* completed.  The steps are those of Spec; the clipboard holds the text   *)
(* Draft or the URL, the page is refused or comes back with one image,     *)
(* and the image prefix is x7k.                                            *)
(***************************************************************************)
RaceVaults ==
    { [folders |-> <<>>, files |-> <<>>,
       attachmentFolderPath |-> <<".", "/", "a", "t", "t">>],
      [folders |-> <<Inbox>>, files |-> [path \in {DraftPath(0)} |-> OldFile],
       attachmentFolderPath |-> <<>>] }

RaceSettings ==
    { [inboxFolder |-> Inbox, useOpenAI |-> ai, openAIApiKey |-> <<"k">>,
       downloadImages |-> ai] : ai \in BOOLEAN }

RacePage ==
    [rejected |-> FALSE, status |-> 200, text |-> Html, title |-> Draft,
     markdown |-> ImageSpan(<<"a">>, <<"i", ".", "p", "n", "g">>)]

InitRace ==
    /\ vault \in RaceVaults
    /\ settings \in RaceSettings
    /\ run = [p \in Procs |-> IdleRun]
    /\ fnArg = <<>>
    /\ fnRes = <<>>
    /\ fnStage = "race"

\* the steps of Spec, with the inputs of the race
RaceStep(p) ==
    \/ createNoteFromClipboard(p) /\ run'[p].clipboardText \in {Draft, SiteUrl}
    \/ PageReturns(p) /\ run'[p].response \in {NoPage, RacePage}
    \/ ChatReturns(p)
    \/ InboxCreated(p)
    \/ NoteCreated(p) /\ run'[p].imagePrefix \in {<<>>, <<"x", "7", "k">>}
    \/ ImageFetched(p)
    \/ AttachmentFolderCreated(p)
    \/ ImageWritten(p)
    \/ NoteModified(p)
    \/ NoteOpened(p)

NextRace == \E p \in Procs : RaceStep(p)

SpecRace == InitRace /\ [][NextRace]_vars

\* C15: no lock is taken, so two overlapping invocations race on the collision
\* check: whenever both are at their create call with the same sanitized title,
\* they have found the same target path free and have both called create for it.
C15_BothCreateAtSamePath ==
    \A p, q \in Procs :
        (/\ p # q
         /\ run[p].pc = "creating"
         /\ run[q].pc = "creating"
         /\ Sanitize(run[p].title) = Sanitize(run[q].title)) =>
            /\ run[p].finalPath = run[q].finalPath
            /\ ~Exists(vault, run[p].finalPath)
            /\ run[p].log[Len(run[p].log)] = [op |-> "create", arg |-> run[p].finalPath]
            /\ run[q].log[Len(run[q].log)] = [op |-> "create", arg |-> run[p].finalPath]

\* both invocations were handed the text Draft, found Draft-1.md free and called
\* create for it
C15_Witness ==
    /\ run[1].pc = "creating"
    /\ run[2].pc = "creating"
    /\ run[1].title = Draft
    /\ run[2].title = Draft
    /\ run[1].finalPath = DraftPath(1)
    /\ run[2].finalPath = DraftPath(1)
    /\ ~Exists(vault, DraftPath(1))
    /\ Calls(run[1], "create") = 1
    /\ Calls(run[2], "create") = 1

====
